---------------------------- MODULE Spec2Model ----------------------------
(***************************************************************************)
(* Verification model of the pointy 2D geometry kernel: bounding boxes     *)
(* (bbox.rs), lines (line.rs) and segments (segment.rs).                   *)
(*                                                                         *)
(* The component type F (f32 / f64) is modelled by exact rationals         *)
(* <<n, d>> in lowest terms with d > 0.  Every input coordinate is a small *)
(* integer, for which the float operations the code performs on the way to *)
(* a comparison are exact (sums, differences and products of small         *)
(* integers); a quotient is kept exact where the float would round, and a  *)
(* magnitude (hypot) is kept as the exact root of a rational.  A division  *)
(* by a zero magnitude gives NaN or infinity as IEEE 754 does.  Rounding   *)
(* and overflow to infinity are outside the model.                         *)
(***************************************************************************)
EXTENDS Integers, Sequences, FiniteSets, TLC

VARIABLES
    pc,         \* the call made last
    ret,        \* what that call returned
    bbox,       \* the box: receiver of check / extend, argument of bounded_by / clip
    included,   \* every point the box was built from so far
    seg,        \* the receiver segment (or line, as its two points)
    rhs,        \* the argument segment (or line) of intersection
    pt,         \* the query point
    other,      \* the receiver box of BBox::bounded_by
    xform,      \* the transform built so far
    chain,      \* the transforms the builder methods multiplied in, in call order
    iter        \* the BBoxIter made by into_iter, None before

vars == <<pc, ret, bbox, included, seg, rhs, pt, other, xform, chain, iter>>

(***************************************************************************)
(* Bounds of the model                                                     *)
(***************************************************************************)
\* segment / query coordinates range over -1 .. SegMax
SegMax == 2
\* box corner coordinates range over 0 .. BoxMax
BoxMax == 1
\* line / segment intersection inputs range over 0 .. IsectMax
IsectMax == 2
\* the points a box is built from range over 0 .. GridMax
GridMax == 2
\* a box is built from at most MaxPts distinct points
MaxPts == 3
\* stand-in for F::max_value(); F::min_value() is its negation
MaxValue == 100
\* translate / scale parameters range over 1 .. XformMax
XformMax == 2
\* at most ChainMax builder methods are chained
ChainMax == 2
\* next is called at most NextMax times on one iterator
NextMax == 4

(***************************************************************************)
(* Rust evaluates a `let` and a by-value argument once.  Let(v, Body) is   *)
(* Body applied to the value of v: the singleton set makes v a value       *)
(* before Body uses it.                                                    *)
(***************************************************************************)
Let(v, Body(_)) == CHOOSE r \in {Body(x) : x \in {v}} : TRUE

Let2(v, w, Body(_, _)) == CHOOSE r \in {Body(x, y) : x \in {v}, y \in {w}} : TRUE

(***************************************************************************)
(* F: exact rational arithmetic                                            *)
(***************************************************************************)
Abs(i) == IF i < 0 THEN -i ELSE i

RECURSIVE Gcd(_, _)
Gcd(a, b) == IF b = 0 THEN a ELSE Let2(a, b, LAMBDA x, y : Gcd(y, x % y))

\* n / d in lowest terms, d > 0
Norm(n, d) ==
    Let2(n, d, LAMBDA i, j :
    Let(IF j < 0 THEN -Gcd(Abs(i), Abs(j)) ELSE Gcd(Abs(i), Abs(j)), LAMBDA g :
        <<i \div g, j \div g>>))

F(i) == <<i, 1>>
Zero == F(0)

FAdd(a, b) == Let2(a, b, LAMBDA x, y : Norm(x[1] * y[2] + y[1] * x[2], x[2] * y[2]))
FSub(a, b) == Let2(a, b, LAMBDA x, y : Norm(x[1] * y[2] - y[1] * x[2], x[2] * y[2]))
FMul(a, b) == Let2(a, b, LAMBDA x, y : Norm(x[1] * y[1], x[2] * y[2]))
\* only used with b # 0
FDiv(a, b) == Let2(a, b, LAMBDA x, y : Norm(x[1] * y[2], x[2] * y[1]))
FLt(a, b) == Let2(a, b, LAMBDA x, y : x[1] * y[2] < y[1] * x[2])
FGt(a, b) == FLt(b, a)
FLe(a, b) == ~FLt(b, a)
FGe(a, b) == ~FLt(a, b)
FMin(a, b) == Let2(a, b, LAMBDA x, y : IF FLt(y, x) THEN y ELSE x)
FMax(a, b) == Let2(a, b, LAMBDA x, y : IF FLt(x, y) THEN y ELSE x)
FAbs(a) == Let(a, LAMBDA x : <<Abs(x[1]), x[2]>>)

\* A magnitude is the nonnegative root of a rational q, kept as Root(q); the
\* two IEEE values a division by a zero magnitude produces stand beside it.
Root(q) == [kind |-> "root", of |-> q]
NaN == [kind |-> "nan", of |-> Zero]
Infinity == [kind |-> "inf", of |-> Zero]

\* x.hypot(y)
Hypot(x, y) == Let2(x, y, LAMBDA a, b : Root(FAdd(FMul(a, a), FMul(b, b))))

\* a / m for a nonnegative a and a magnitude m: 0 / 0 is NaN, a / 0 infinity,
\* and a / root(q) is root(a * a / q)
FDivRoot(a, m) ==
    Let2(a, m, LAMBDA x, r :
        IF r.of = Zero THEN (IF x = Zero THEN NaN ELSE Infinity)
        ELSE Root(FDiv(FMul(x, x), r.of)))

(***************************************************************************)
(* Pt (point.rs)                                                           *)
(***************************************************************************)
Pt(x, y) == [x |-> x, y |-> y]

\* a point with integer coordinates
IPt(i, j) == Pt(F(i), F(j))

PtSub(a, b) == Let2(a, b, LAMBDA p, q : Pt(FSub(p.x, q.x), FSub(p.y, q.y)))

\* cross product, Pt * Pt
Cross(a, b) == Let2(a, b, LAMBDA p, q : FSub(FMul(p.x, q.y), FMul(p.y, q.x)))

\* dot product
dot(a, b) == Let2(a, b, LAMBDA p, q : FAdd(FMul(p.x, q.x), FMul(p.y, q.y)))

\* right with the slip that the second component is not negated
right_NoNegate(a) == Let(a, LAMBDA p : Pt(p.y, p.x))

\* right-hand perpendicular vector
right(a) == Let(a, LAMBDA p : Pt(p.y, FSub(Zero, p.x)))

\* magnitude (length) of a vector
mag(a) == Let(a, LAMBDA p : Hypot(p.x, p.y))

with_min(a, b) == Let2(a, b, LAMBDA p, q : Pt(FMin(p.x, q.x), FMin(p.y, q.y)))

\* with_max with the slip that x is taken from rhs alone
with_max_XFromRhs(a, b) == Let2(a, b, LAMBDA p, q : Pt(q.x, FMax(p.y, q.y)))

with_max(a, b) == Let2(a, b, LAMBDA p, q : Pt(FMax(p.x, q.x), FMax(p.y, q.y)))

(***************************************************************************)
(* Option<T>: <<>> is None, <<v>> is Some(v)                               *)
(***************************************************************************)
None == <<>>
Some(v) == <<v>>
IsSome(o) == o # <<>>
Unwrap(o) == o[1]

\* the outcome of a call that panicked in place of returning
Panic == [panic |-> "unwrap on None"]

\* Option::unwrap where None is possible: the value, or the panic
UnwrapOrPanic(o) == IF IsSome(o) THEN o[1] ELSE Panic

(***************************************************************************)
(* BBox (bbox.rs): pts[0] is min, pts[1] is max                            *)
(***************************************************************************)
BBoxDefault ==
    [min |-> Pt(F(MaxValue), F(MaxValue)), max |-> Pt(F(-MaxValue), F(-MaxValue))]

BBoxFrom(p) == [min |-> p, max |-> p]

\* include_pt with the slip that maxp is folded from pts[0]
include_pt_MaxFromMin(b, p) ==
    Let2(b, p, LAMBDA self, q :
        [min |-> with_min(self.min, q), max |-> with_max(self.min, q)])

\* include_pt with the slip that minp is folded from pts[1]
include_pt_MinFromMax(b, p) ==
    Let2(b, p, LAMBDA self, q :
        [min |-> with_min(self.max, q), max |-> with_max(self.max, q)])

include_pt(b, p) ==
    Let2(b, p, LAMBDA self, q :
        [min |-> with_min(self.min, q), max |-> with_max(self.max, q)])

\* pts is a sequence of points, folded in order
RECURSIVE extend(_, _)
extend(b, pts) ==
    IF pts = <<>> THEN b
    ELSE Let(include_pt(b, Head(pts)), LAMBDA self : extend(self, Tail(pts)))

BBoxNew(pts) == extend(BBoxDefault, pts)

x_min(b) == b.min.x
x_max(b) == b.max.x
y_min(b) == b.min.y
y_max(b) == b.max.y

\* the three-way comparison with <= and >=: a boundary value is outside
CheckAxis_BoundaryOutside(v, lo, hi) ==
    IF FLe(v, lo) THEN "Less" ELSE IF FGe(v, hi) THEN "Greater" ELSE "Equal"

CheckAxis(v, lo, hi) ==
    IF FLt(v, lo) THEN "Less" ELSE IF FGt(v, hi) THEN "Greater" ELSE "Equal"

check(b, x, y) ==
    Let2(CheckAxis(x, x_min(b), x_max(b)), CheckAxis(y, y_min(b), y_max(b)),
         LAMBDA ox, oy :
        CASE ox = "Equal"   /\ oy = "Equal"   -> "Within"
          [] ox = "Less"    /\ oy = "Less"    -> "BelowLeft"
          [] ox = "Less"    /\ oy = "Equal"   -> "Left"
          [] ox = "Less"    /\ oy = "Greater" -> "AboveLeft"
          [] ox = "Equal"   /\ oy = "Greater" -> "Above"
          [] ox = "Greater" /\ oy = "Greater" -> "AboveRight"
          [] ox = "Greater" /\ oy = "Equal"   -> "Right"
          [] ox = "Greater" /\ oy = "Less"    -> "BelowRight"
          [] ox = "Equal"   /\ oy = "Less"    -> "Below")

PtBoundedBy(p, b) == check(b, p.x, p.y) = "Within"

\* the overlap test with a strict first comparison
BBoxBoundedBy_StrictFirst(a, b) ==
    /\ FLt(x_min(a), x_max(b))
    /\ FGe(x_max(a), x_min(b))
    /\ FLe(y_min(a), y_max(b))
    /\ FGe(y_max(a), y_min(b))

\* the overlap test with strict comparisons throughout
BBoxBoundedBy_AllStrict(a, b) ==
    /\ FLt(x_min(a), x_max(b))
    /\ FGt(x_max(a), x_min(b))
    /\ FLt(y_min(a), y_max(b))
    /\ FGt(y_max(a), y_min(b))

BBoxBoundedBy(a, b) ==
    /\ FLe(x_min(a), x_max(b))
    /\ FGe(x_max(a), x_min(b))
    /\ FLe(y_min(a), y_max(b))
    /\ FGe(y_max(a), y_min(b))

\* BBoxIter: the two points (pts[0] is min, pts[1] is max) and the counter
BBoxIter(pts, i) == [pts |-> pts, i |-> i]

BBoxIterNew(pts) == BBoxIter(pts, 0)

\* next with the last branch starting over
next_StartsOver(it) ==
    Let(it, LAMBDA self :
        IF self.i = 0 THEN [self |-> BBoxIter(self.pts, 1), item |-> Some(self.pts[1])]
        ELSE IF self.i = 1
        THEN [self |-> BBoxIter(self.pts, 2), item |-> Some(self.pts[2])]
        ELSE [self |-> BBoxIter(self.pts, 0), item |-> None])

\* Iterator::next: the iterator after the call and the item returned
\* (pts[0] and pts[1] of the code are pts[1] and pts[2] of the sequence)
next(it) ==
    Let(it, LAMBDA self :
        IF self.i = 0 THEN [self |-> BBoxIter(self.pts, 1), item |-> Some(self.pts[1])]
        ELSE IF self.i = 1
        THEN [self |-> BBoxIter(self.pts, 2), item |-> Some(self.pts[2])]
        ELSE [self |-> self, item |-> None])

\* IntoIterator for BBox
into_iter(b) == BBoxIterNew(<<b.min, b.max>>)

(***************************************************************************)
(* Line (line.rs)                                                          *)
(***************************************************************************)
Line(p0, p1) == [p0 |-> p0, p1 |-> p1]

\* Line::intersection with the guard den > 0 in place of den != 0
LineIntersection_PositiveDen(l, r) ==
    Let2(l, r, LAMBDA self, rhs_ :
    Let2(PtSub(self.p1, self.p0), PtSub(rhs_.p1, rhs_.p0), LAMBDA v0, v1 :
    Let(Cross(v0, v1), LAMBDA den :
        IF FGt(den, Zero)
        THEN Let(PtSub(self.p0, rhs_.p0), LAMBDA v2 :
             Let(Cross(v1, v2), LAMBDA num :
             Let(FDiv(num, den), LAMBDA u :
                 Some(Pt(FAdd(self.p0.x, FMul(u, v0.x)),
                         FAdd(self.p0.y, FMul(u, v0.y)))))))
        ELSE None)))

\* Line::intersection answering self.p0 where den is zero
LineIntersection_ZeroDenGivesP0(l, r) ==
    Let2(l, r, LAMBDA self, rhs_ :
    Let2(PtSub(self.p1, self.p0), PtSub(rhs_.p1, rhs_.p0), LAMBDA v0, v1 :
    Let(Cross(v0, v1), LAMBDA den :
        IF den # Zero
        THEN Let(PtSub(self.p0, rhs_.p0), LAMBDA v2 :
             Let(Cross(v1, v2), LAMBDA num :
             Let(FDiv(num, den), LAMBDA u :
                 Some(Pt(FAdd(self.p0.x, FMul(u, v0.x)),
                         FAdd(self.p0.y, FMul(u, v0.y)))))))
        ELSE Some(self.p0))))

\* Line::intersection with num taken as v0 * v2, the parameter along rhs
LineIntersection_NumFromV0(l, r) ==
    Let2(l, r, LAMBDA self, rhs_ :
    Let2(PtSub(self.p1, self.p0), PtSub(rhs_.p1, rhs_.p0), LAMBDA v0, v1 :
    Let(Cross(v0, v1), LAMBDA den :
        IF den # Zero
        THEN Let(PtSub(self.p0, rhs_.p0), LAMBDA v2 :
             Let(Cross(v0, v2), LAMBDA num :
             Let(FDiv(num, den), LAMBDA u :
                 Some(Pt(FAdd(self.p0.x, FMul(u, v0.x)),
                         FAdd(self.p0.y, FMul(u, v0.y)))))))
        ELSE None)))

LineIntersection(l, r) ==
    Let2(l, r, LAMBDA self, rhs_ :
    Let2(PtSub(self.p1, self.p0), PtSub(rhs_.p1, rhs_.p0), LAMBDA v0, v1 :
    Let(Cross(v0, v1), LAMBDA den :
        IF den # Zero
        THEN Let(PtSub(self.p0, rhs_.p0), LAMBDA v2 :
             Let(Cross(v1, v2), LAMBDA num :
             Let(FDiv(num, den), LAMBDA u :
                 Some(Pt(FAdd(self.p0.x, FMul(u, v0.x)),
                         FAdd(self.p0.y, FMul(u, v0.y)))))))
        ELSE None)))

\* Line::project: intersect with the perpendicular through pt, and unwrap
project(l, q) ==
    Let2(l, q, LAMBDA self, pt_ :
    Let(right(PtSub(self.p1, self.p0)), LAMBDA perp :
    Let(Pt(FAdd(pt_.x, perp.x), FAdd(pt_.y, perp.y)), LAMBDA p1 :
        UnwrapOrPanic(LineIntersection(self, Line(pt_, p1))))))

\* the four reference lines of the canonical form: x = 0, x = 1, y = 0, y = 1
X0 == Line(IPt(0, 0), IPt(0, 1))
X1 == Line(IPt(1, 0), IPt(1, 1))
Y0 == Line(IPt(0, 0), IPt(1, 0))
Y1 == Line(IPt(0, 1), IPt(1, 1))

\* Line::canonical: the points where the line meets x = 0 and y = 0; a line
\* through the origin, and a horizontal one, is anchored on x = 1 instead of
\* y = 0, a vertical one on y = 0 and y = 1; a line that meets none of the
\* reference lines is the unreachable case
canonical(l) ==
    Let(l, LAMBDA self :
    Let2(LineIntersection(self, X0), LineIntersection(self, Y0), LAMBDA a, b :
        IF IsSome(a) /\ IsSome(b)
        THEN IF a = b
             THEN Let(LineIntersection(self, X1), LAMBDA c :
                      IF IsSome(c) THEN Line(Unwrap(a), Unwrap(c)) ELSE Panic)
             ELSE Line(Unwrap(a), Unwrap(b))
        ELSE IF IsSome(a)
        THEN Let(LineIntersection(self, X1), LAMBDA c :
                 IF IsSome(c) THEN Line(Unwrap(a), Unwrap(c)) ELSE Panic)
        ELSE IF IsSome(b)
        THEN Let(LineIntersection(self, Y1), LAMBDA c :
                 IF IsSome(c) THEN Line(Unwrap(b), Unwrap(c)) ELSE Panic)
        ELSE Panic))

(***************************************************************************)
(* Seg (segment.rs)                                                        *)
(***************************************************************************)
Seg(p0, p1) == [p0 |-> p0, p1 |-> p1]

\* Seg::distance with the slip that the second branch returns v1.mag()
distance_P0BranchUsesV1(s, q) ==
    Let2(s, q, LAMBDA self, pt_ :
    Let2(PtSub(self.p1, self.p0), PtSub(pt_, self.p1), LAMBDA v0, v1 :
        IF FGt(dot(v0, v1), Zero) THEN mag(v1)
        ELSE Let2(PtSub(self.p0, self.p1), PtSub(pt_, self.p0), LAMBDA v2, v3 :
            IF FGt(dot(v2, v3), Zero) THEN mag(v1)
            ELSE FDivRoot(FAbs(Cross(v0, v3)), mag(v0)))))

\* Seg::distance with >= in the first test
distance_GeFirst(s, q) ==
    Let2(s, q, LAMBDA self, pt_ :
    Let2(PtSub(self.p1, self.p0), PtSub(pt_, self.p1), LAMBDA v0, v1 :
        IF FGe(dot(v0, v1), Zero) THEN mag(v1)
        ELSE Let2(PtSub(self.p0, self.p1), PtSub(pt_, self.p0), LAMBDA v2, v3 :
            IF FGt(dot(v2, v3), Zero) THEN mag(v3)
            ELSE FDivRoot(FAbs(Cross(v0, v3)), mag(v0)))))

\* Seg::distance: the two early returns, then the point-line distance
distance(s, q) ==
    Let2(s, q, LAMBDA self, pt_ :
    Let2(PtSub(self.p1, self.p0), PtSub(pt_, self.p1), LAMBDA v0, v1 :
        IF FGt(dot(v0, v1), Zero) THEN mag(v1)
        ELSE Let2(PtSub(self.p0, self.p1), PtSub(pt_, self.p0), LAMBDA v2, v3 :
            IF FGt(dot(v2, v3), Zero) THEN mag(v3)
            ELSE FDivRoot(FAbs(Cross(v0, v3)), mag(v0)))))

\* the return of Seg::distance that is taken, with >= in the first test
distance_arm_GeFirst(s, q) ==
    Let2(s, q, LAMBDA self, pt_ :
    Let2(PtSub(self.p1, self.p0), PtSub(pt_, self.p1), LAMBDA v0, v1 :
        IF FGe(dot(v0, v1), Zero) THEN "p1"
        ELSE Let2(PtSub(self.p0, self.p1), PtSub(pt_, self.p0), LAMBDA v2, v3 :
            IF FGt(dot(v2, v3), Zero) THEN "p0" ELSE "between")))

\* the return of Seg::distance that is taken: the first early return
\* (nearest point p1), the second (nearest point p0), or the final
\* expression (a point between p0 and p1)
distance_arm(s, q) ==
    Let2(s, q, LAMBDA self, pt_ :
    Let2(PtSub(self.p1, self.p0), PtSub(pt_, self.p1), LAMBDA v0, v1 :
        IF FGt(dot(v0, v1), Zero) THEN "p1"
        ELSE Let2(PtSub(self.p0, self.p1), PtSub(pt_, self.p0), LAMBDA v2, v3 :
            IF FGt(dot(v2, v3), Zero) THEN "p0" ELSE "between")))

\* Seg::intersection filtering by the box of self's endpoints, not rhs's
SegIntersection_FilterSelf(s, r) ==
    Let(LineIntersection(Line(s.p0, s.p1), Line(r.p0, r.p1)), LAMBDA o :
        IF IsSome(o) /\ PtBoundedBy(Unwrap(o), BBoxNew(<<s.p0, s.p1>>))
        THEN o ELSE None)

\* Seg::intersection without the filter
SegIntersection_NoFilter(s, r) ==
    LineIntersection(Line(s.p0, s.p1), Line(r.p0, r.p1))

\* Option::filter keeps the line intersection only if it is bounded by the
\* box of rhs's two endpoints
SegIntersection(s, r) ==
    Let(LineIntersection(Line(s.p0, s.p1), Line(r.p0, r.p1)), LAMBDA o :
        IF IsSome(o) /\ PtBoundedBy(Unwrap(o), BBoxNew(<<r.p0, r.p1>>))
        THEN o ELSE None)

intersects(s, r) == IsSome(SegIntersection(s, r))

x_min_edge(b) == Seg(Pt(x_min(b), y_min(b)), Pt(x_min(b), y_max(b)))
x_max_edge(b) == Seg(Pt(x_max(b), y_min(b)), Pt(x_max(b), y_max(b)))
y_min_edge(b) == Seg(Pt(x_min(b), y_min(b)), Pt(x_max(b), y_min(b)))
y_max_edge(b) == Seg(Pt(x_min(b), y_max(b)), Pt(x_max(b), y_max(b)))

LeftSide == {"Left", "BelowLeft", "AboveLeft"}
RightSide == {"Right", "BelowRight", "AboveRight"}
BelowSide == {"Below", "BelowLeft", "BelowRight"}
AboveSide == {"Above", "AboveLeft", "AboveRight"}

\* Seg::bounded_by with the opposite-side arms answering false
SegBoundedBy_OppositeReject(s, b) ==
    Let2(check(b, s.p0.x, s.p0.y), check(b, s.p1.x, s.p1.y), LAMBDA t0, t1 :
        IF t0 = "Within" \/ t1 = "Within" THEN TRUE
        ELSE IF t0 = "Left" /\ t1 = "Right" THEN FALSE
        ELSE IF t0 = "Right" /\ t1 = "Left" THEN FALSE
        ELSE IF t0 = "Below" /\ t1 = "Above" THEN FALSE
        ELSE IF t0 = "Above" /\ t1 = "Below" THEN FALSE
        ELSE IF t0 \in LeftSide /\ t1 \in LeftSide THEN FALSE
        ELSE IF t0 \in RightSide /\ t1 \in RightSide THEN FALSE
        ELSE IF t0 \in BelowSide /\ t1 \in BelowSide THEN FALSE
        ELSE IF t0 \in AboveSide /\ t1 \in AboveSide THEN FALSE
        ELSE IF t0 = "Left" \/ t1 = "Left" THEN intersects(s, x_min_edge(b))
        ELSE IF t0 = "Right" \/ t1 = "Right" THEN intersects(s, x_max_edge(b))
        ELSE IF t0 = "BelowLeft" \/ t1 = "BelowLeft"
            THEN intersects(s, x_min_edge(b)) \/ intersects(s, y_min_edge(b))
        ELSE IF t0 = "AboveLeft" \/ t1 = "AboveLeft"
            THEN intersects(s, x_min_edge(b)) \/ intersects(s, y_max_edge(b))
        ELSE IF t0 = "BelowRight" \/ t1 = "BelowRight"
            THEN intersects(s, x_max_edge(b)) \/ intersects(s, y_min_edge(b))
        ELSE intersects(s, x_max_edge(b)) \/ intersects(s, y_max_edge(b)))

\* the match of segment.rs, arm by arm in source order
SegBoundedBy(s, b) ==
    Let2(check(b, s.p0.x, s.p0.y), check(b, s.p1.x, s.p1.y), LAMBDA t0, t1 :
        IF t0 = "Within" \/ t1 = "Within" THEN TRUE
        ELSE IF t0 = "Left" /\ t1 = "Right" THEN TRUE
        ELSE IF t0 = "Right" /\ t1 = "Left" THEN TRUE
        ELSE IF t0 = "Below" /\ t1 = "Above" THEN TRUE
        ELSE IF t0 = "Above" /\ t1 = "Below" THEN TRUE
        ELSE IF t0 \in LeftSide /\ t1 \in LeftSide THEN FALSE
        ELSE IF t0 \in RightSide /\ t1 \in RightSide THEN FALSE
        ELSE IF t0 \in BelowSide /\ t1 \in BelowSide THEN FALSE
        ELSE IF t0 \in AboveSide /\ t1 \in AboveSide THEN FALSE
        ELSE IF t0 = "Left" \/ t1 = "Left" THEN intersects(s, x_min_edge(b))
        ELSE IF t0 = "Right" \/ t1 = "Right" THEN intersects(s, x_max_edge(b))
        ELSE IF t0 = "BelowLeft" \/ t1 = "BelowLeft"
            THEN intersects(s, x_min_edge(b)) \/ intersects(s, y_min_edge(b))
        ELSE IF t0 = "AboveLeft" \/ t1 = "AboveLeft"
            THEN intersects(s, x_min_edge(b)) \/ intersects(s, y_max_edge(b))
        ELSE IF t0 = "BelowRight" \/ t1 = "BelowRight"
            THEN intersects(s, x_max_edge(b)) \/ intersects(s, y_min_edge(b))
        ELSE intersects(s, x_max_edge(b)) \/ intersects(s, y_max_edge(b)))

\* the match of the revision in line.rs, arm by arm in source order: after
\* the arms decided by the region codes, one edge is tested, the left edge
\* if either point is on the left side, else the right edge
LineRsSegBoundedBy(s, b) ==
    Let2(check(b, s.p0.x, s.p0.y), check(b, s.p1.x, s.p1.y), LAMBDA t0, t1 :
        IF t0 = "Within" \/ t1 = "Within" THEN TRUE
        ELSE IF t0 = "Left" /\ t1 = "Right" THEN TRUE
        ELSE IF t0 = "Right" /\ t1 = "Left" THEN TRUE
        ELSE IF t0 = "Below" /\ t1 = "Above" THEN TRUE
        ELSE IF t0 = "Above" /\ t1 = "Below" THEN TRUE
        ELSE IF t0 \in LeftSide /\ t1 \in LeftSide THEN FALSE
        ELSE IF t0 \in RightSide /\ t1 \in RightSide THEN FALSE
        ELSE IF t0 \in BelowSide /\ t1 \in BelowSide THEN FALSE
        ELSE IF t0 \in AboveSide /\ t1 \in AboveSide THEN FALSE
        ELSE IF t0 \in LeftSide \/ t1 \in LeftSide
            THEN intersects(s, Seg(Pt(x_min(b), y_min(b)), Pt(x_min(b), y_max(b))))
        ELSE intersects(s, Seg(Pt(x_max(b), y_min(b)), Pt(x_max(b), y_max(b)))))

\* a step of clip on a lower bound that trims p0 only
ClipLow_P0Only(s, edge, lo, axis) ==
    Let2(s, SegIntersection(s, edge), LAMBDA self, o :
        IF ~IsSome(o) THEN self
        ELSE IF FLt(self.p0[axis], lo) THEN Seg(Unwrap(o), self.p1)
        ELSE self)

\* one step of clip on a lower bound: the intersection with the edge replaces
\* p0 if p0 is below the bound, else p1 if p1 is
ClipLow(s, edge, lo, axis) ==
    Let2(s, SegIntersection(s, edge), LAMBDA self, o :
        IF ~IsSome(o) THEN self
        ELSE IF FLt(self.p0[axis], lo) THEN Seg(Unwrap(o), self.p1)
        ELSE IF FLt(self.p1[axis], lo) THEN Seg(self.p0, Unwrap(o))
        ELSE self)

\* one step of clip on an upper bound
ClipHigh(s, edge, hi, axis) ==
    Let2(s, SegIntersection(s, edge), LAMBDA self, o :
        IF ~IsSome(o) THEN self
        ELSE IF FGt(self.p0[axis], hi) THEN Seg(Unwrap(o), self.p1)
        ELSE IF FGt(self.p1[axis], hi) THEN Seg(self.p0, Unwrap(o))
        ELSE self)

\* clip without the bounded_by test in front
clip_NoReject(s, b) ==
    Let(ClipLow(s, x_min_edge(b), x_min(b), "x"), LAMBDA s1 :
    Let(ClipHigh(s1, x_max_edge(b), x_max(b), "x"), LAMBDA s2 :
    Let(ClipLow(s2, y_min_edge(b), y_min(b), "y"), LAMBDA s3 :
    Let(ClipHigh(s3, y_max_edge(b), y_max(b), "y"), LAMBDA s4 :
        Some(s4)))))

\* the four steps in source order, each on the result of the one before
clip(s, b) ==
    IF ~SegBoundedBy(s, b) THEN None
    ELSE Let(ClipLow(s, x_min_edge(b), x_min(b), "x"), LAMBDA s1 :
         Let(ClipHigh(s1, x_max_edge(b), x_max(b), "x"), LAMBDA s2 :
         Let(ClipLow(s2, y_min_edge(b), y_min(b), "y"), LAMBDA s3 :
         Let(ClipHigh(s3, y_max_edge(b), y_max(b), "y"), LAMBDA s4 :
             Some(s4)))))

(***************************************************************************)
(* Transform (transform.rs): e holds the first two rows of the 3x3 matrix  *)
(***************************************************************************)
\* an array [F; 6], indexed from 0
Arr6(a0, a1, a2, a3, a4, a5) == [i \in 0 .. 5 |-> <<a0, a1, a2, a3, a4, a5>>[i + 1]]

Transform(e) == [e |-> e]

TransformDefault == Transform(Arr6(F(1), Zero, Zero, Zero, F(1), Zero))

\* mul_e with self and rhs exchanged
mul_e_Exchanged(a, b) ==
    Let2(b, a, LAMBDA self, rhs_ :
        Arr6(FAdd(FMul(self.e[0], rhs_.e[0]), FMul(self.e[3], rhs_.e[1])),
             FAdd(FMul(self.e[1], rhs_.e[0]), FMul(self.e[4], rhs_.e[1])),
             FAdd(FAdd(FMul(self.e[2], rhs_.e[0]), FMul(self.e[5], rhs_.e[1])), rhs_.e[2]),
             FAdd(FMul(self.e[0], rhs_.e[3]), FMul(self.e[3], rhs_.e[4])),
             FAdd(FMul(self.e[1], rhs_.e[3]), FMul(self.e[4], rhs_.e[4])),
             FAdd(FAdd(FMul(self.e[2], rhs_.e[3]), FMul(self.e[5], rhs_.e[4])), rhs_.e[5])))

mul_e(a, b) ==
    Let2(a, b, LAMBDA self, rhs_ :
        Arr6(FAdd(FMul(self.e[0], rhs_.e[0]), FMul(self.e[3], rhs_.e[1])),
             FAdd(FMul(self.e[1], rhs_.e[0]), FMul(self.e[4], rhs_.e[1])),
             FAdd(FAdd(FMul(self.e[2], rhs_.e[0]), FMul(self.e[5], rhs_.e[1])), rhs_.e[2]),
             FAdd(FMul(self.e[0], rhs_.e[3]), FMul(self.e[3], rhs_.e[4])),
             FAdd(FMul(self.e[1], rhs_.e[3]), FMul(self.e[4], rhs_.e[4])),
             FAdd(FAdd(FMul(self.e[2], rhs_.e[3]), FMul(self.e[5], rhs_.e[4])), rhs_.e[5])))

\* Transform * Transform, and *= (mul_assign)
TransformMul(a, b) == Transform(mul_e(a, b))

\* Transform * Pt
TransformMulPt(t, p) ==
    Let2(t, p, LAMBDA self, s :
        Pt(FAdd(FAdd(FMul(self.e[0], s.x), FMul(self.e[1], s.y)), self.e[2]),
           FAdd(FAdd(FMul(self.e[3], s.x), FMul(self.e[4], s.y)), self.e[5])))

\* Pt * Transform
PtMulTransform(p, t) ==
    Let2(p, t, LAMBDA self, t_ :
        Pt(FAdd(FAdd(FMul(t_.e[0], self.x), FMul(t_.e[1], self.y)), t_.e[2]),
           FAdd(FAdd(FMul(t_.e[3], self.x), FMul(t_.e[4], self.y)), t_.e[5])))

\* The angles handed to rotate and skew, and their sine, cosine and tangent
\* (exact values; the right angle is never an angle of skew).
Angles == {"0", "pi/4", "pi/2", "atan(3/4)"}

Cos(th) ==
    CASE th = "0" -> F(1) [] th = "pi/2" -> Zero [] th = "atan(3/4)" -> Norm(4, 5)

Sin(th) ==
    CASE th = "0" -> Zero [] th = "pi/2" -> F(1) [] th = "atan(3/4)" -> Norm(3, 5)

Tan(th) ==
    CASE th = "0" -> Zero [] th = "pi/4" -> F(1) [] th = "atan(3/4)" -> Norm(3, 4)

with_translate(tx, ty) == Transform(Arr6(F(1), Zero, tx, Zero, F(1), ty))

with_scale(sx, sy) == Transform(Arr6(sx, Zero, Zero, Zero, sy, Zero))

with_rotate(th) ==
    Let2(Sin(th), Cos(th), LAMBDA sn, cs :
        Transform(Arr6(cs, FSub(Zero, sn), Zero, sn, cs, Zero)))

with_skew(ax, ay) ==
    Let2(Tan(ax), Tan(ay), LAMBDA tnx, tny :
        Transform(Arr6(F(1), tnx, Zero, tny, F(1), Zero)))

\* the builder methods: self *= Self::with_...(..)
translate(t, tx, ty) == TransformMul(t, with_translate(tx, ty))
scale(t, sx, sy) == TransformMul(t, with_scale(sx, sy))
rotate(t, th) == TransformMul(t, with_rotate(th))
skew(t, ax, ay) == TransformMul(t, with_skew(ax, ay))

(***************************************************************************)
(* Reference geometry used to state the claims (exact, never the code's    *)
(* own intersection routine)                                               *)
(***************************************************************************)
Valid(b) == FLe(x_min(b), x_max(b)) /\ FLe(y_min(b), y_max(b))

\* p lies in the closed rectangle b
InBox(p, b) ==
    /\ FLe(x_min(b), p.x) /\ FLe(p.x, x_max(b))
    /\ FLe(y_min(b), p.y) /\ FLe(p.y, y_max(b))

Sign(a) == IF a[1] > 0 THEN 1 ELSE IF a[1] < 0 THEN -1 ELSE 0

\* orientation of c relative to the directed line a -> b
Orient(a, b, c) == Sign(Cross(PtSub(b, a), PtSub(c, a)))

\* p lies on the closed segment a-b
OnSeg(a, b, p) ==
    /\ Orient(a, b, p) = 0
    /\ FLe(FMin(a.x, b.x), p.x) /\ FLe(p.x, FMax(a.x, b.x))
    /\ FLe(FMin(a.y, b.y), p.y) /\ FLe(p.y, FMax(a.y, b.y))

\* on the closed segment a-b for a point segment a = b too
OnClosedSeg(s, p) == IF s.p0 = s.p1 THEN p = s.p0 ELSE OnSeg(s.p0, s.p1, p)

\* the closed segments s and r share a point
SegsTouch(s, r) ==
    LET o1 == Orient(s.p0, s.p1, r.p0)
        o2 == Orient(s.p0, s.p1, r.p1)
        o3 == Orient(r.p0, r.p1, s.p0)
        o4 == Orient(r.p0, r.p1, s.p1)
    IN  \/ o1 * o2 < 0 /\ o3 * o4 < 0
        \/ OnClosedSeg(s, r.p0) \/ OnClosedSeg(s, r.p1)
        \/ OnClosedSeg(r, s.p0) \/ OnClosedSeg(r, s.p1)

\* brute force: an endpoint inside, or the segment meets one of the four edges
Overlaps(s, b) ==
    \/ InBox(s.p0, b) \/ InBox(s.p1, b)
    \/ \E e \in {x_min_edge(b), x_max_edge(b), y_min_edge(b), y_max_edge(b)} :
           SegsTouch(s, e)

Degenerate(b) == x_min(b) = x_max(b) \/ y_min(b) = y_max(b)

(***************************************************************************)
(* Inputs                                                                  *)
(***************************************************************************)
\* box corners lie on 0 .. BoxMax; segment endpoints and query points reach
\* one grid line below the boxes and up to SegMax above
SegCoords == (-1) .. SegMax
SegPts == {IPt(i, j) : i \in SegCoords, j \in SegCoords}
Segs == {Seg(a, b) : a \in SegPts, b \in SegPts}

BoxCoords == 0 .. BoxMax
BoxPts == {IPt(i, j) : i \in BoxCoords, j \in BoxCoords}
\* every box BBox::new builds from two corner points (a single point twice
\* gives the box of BBox::from)
Boxes == {BBoxNew(<<a, b>>) : a \in BoxPts, b \in BoxPts}

NoRet == [op |-> "none"]
NoSeg == Seg(IPt(0, 0), IPt(0, 0))
NoPt == IPt(0, 0)

(***************************************************************************)
(* Spec: a segment against a box -- bounded_by, clip, clip again           *)
(***************************************************************************)
Init ==
    /\ pc = "start"
    /\ xform = TransformDefault
    /\ chain = <<>>
    /\ iter = None
    /\ ret = NoRet
    /\ seg \in Segs
    /\ bbox \in Boxes
    /\ included = {}
    /\ rhs = NoSeg
    /\ pt = NoPt
    /\ other = BBoxDefault

\* seg.bounded_by(bbox), by the revision in segment.rs and by the one in
\* line.rs, and Seg::new(p1, p0).bounded_by(bbox)
CallBoundedBy ==
    /\ pc = "start"
    /\ pc' = "bounded_by"
    /\ ret' = [op |-> "bounded_by", bounded |-> SegBoundedBy(seg, bbox),
               bounded_line_rs |-> LineRsSegBoundedBy(seg, bbox),
               bounded_reversed |-> SegBoundedBy(Seg(seg.p1, seg.p0), bbox)]
    /\ UNCHANGED <<bbox, included, seg, rhs, pt, other, xform, chain, iter>>

\* seg.clip(bbox) and Seg::new(p1, p0).clip(bbox)
CallClip ==
    /\ pc = "bounded_by"
    /\ pc' = "clip"
    /\ ret' = [op |-> "clip", bounded |-> ret.bounded, clipped |-> clip(seg, bbox),
               clipped_reversed |-> clip(Seg(seg.p1, seg.p0), bbox)]
    /\ UNCHANGED <<bbox, included, seg, rhs, pt, other, xform, chain, iter>>

\* seg.clip(bbox) followed by .clip(bbox) on its result
CallReclip ==
    /\ pc = "clip"
    /\ pc' = "reclip"
    /\ ret' = [op |-> "reclip", bounded |-> ret.bounded, clipped |-> ret.clipped,
               reclipped |-> IF IsSome(ret.clipped)
                             THEN clip(Unwrap(ret.clipped), bbox) ELSE None]
    /\ UNCHANGED <<bbox, included, seg, rhs, pt, other, xform, chain, iter>>

Next == CallBoundedBy \/ CallClip \/ CallReclip

Spec == Init /\ [][Next]_vars

(***************************************************************************)
(* SpecIsect: two point pairs, as lines (Line::intersection) and as        *)
(* segments (Seg::intersection)                                            *)
(***************************************************************************)
IsectCoords == 0 .. IsectMax
IsectPts == {IPt(i, j) : i \in IsectCoords, j \in IsectCoords}
IsectSegs == {Seg(a, b) : a \in IsectPts, b \in IsectPts}

InitIsect ==
    /\ pc = "start"
    /\ xform = TransformDefault
    /\ chain = <<>>
    /\ iter = None
    /\ ret = NoRet
    /\ seg \in IsectSegs
    /\ rhs \in IsectSegs
    /\ bbox = BBoxDefault
    /\ included = {}
    /\ pt = NoPt
    /\ other = BBoxDefault

\* Line::new(seg.p0, seg.p1).intersection(Line::new(rhs.p0, rhs.p1)), and
\* the same call with receiver and argument exchanged
CallLineIntersection ==
    /\ pc = "start"
    /\ pc' = "line_intersection"
    /\ ret' = [op |-> "line_intersection",
               hit |-> LineIntersection(Line(seg.p0, seg.p1), Line(rhs.p0, rhs.p1)),
               hit_swapped |->
                   LineIntersection(Line(rhs.p0, rhs.p1), Line(seg.p0, seg.p1))]
    /\ UNCHANGED <<bbox, included, seg, rhs, pt, other, xform, chain, iter>>

\* seg.intersection(rhs) and seg.intersects(rhs), then the same calls with
\* receiver and argument exchanged
CallSegIntersection ==
    /\ pc = "line_intersection"
    /\ pc' = "seg_intersection"
    /\ ret' = [op |-> "seg_intersection", hit |-> SegIntersection(seg, rhs),
               hit_exchanged |-> SegIntersection(rhs, seg),
               meets |-> intersects(seg, rhs),
               meets_exchanged |-> intersects(rhs, seg)]
    /\ UNCHANGED <<bbox, included, seg, rhs, pt, other, xform, chain, iter>>

NextIsect == CallLineIntersection \/ CallSegIntersection

SpecIsect == InitIsect /\ [][NextIsect]_vars

(***************************************************************************)
(* SpecBBox: the life cycle of a box -- default / new, then extend         *)
(***************************************************************************)
GridCoords == 0 .. GridMax
GridPts == {IPt(i, j) : i \in GridCoords, j \in GridCoords}
\* the point lists handed to new / extend: one or two points, in order
PtLists == {<<a>> : a \in GridPts} \cup {<<a, b>> : a \in GridPts, b \in GridPts}

Range(q) == {q[i] : i \in DOMAIN q}

InitBBox ==
    /\ pc = "default"
    /\ xform = TransformDefault
    /\ chain = <<>>
    /\ iter = None
    /\ ret = NoRet
    /\ bbox = BBoxDefault
    /\ included = {}
    /\ seg = NoSeg
    /\ rhs = NoSeg
    /\ pt = NoPt
    /\ other = BBoxDefault

\* BBox::default()
CallDefault ==
    /\ pc' = "default"
    /\ bbox' = BBoxDefault
    /\ included' = {}
    /\ UNCHANGED <<ret, seg, rhs, pt, other, xform, chain, iter>>

\* BBox::new(pts)
CallNew(pts) ==
    /\ Cardinality(Range(pts)) <= MaxPts
    /\ pc' = "new"
    /\ bbox' = BBoxNew(pts)
    /\ included' = Range(pts)
    /\ UNCHANGED <<ret, seg, rhs, pt, other, xform, chain, iter>>

\* bbox.extend(pts)
CallExtend(pts) ==
    /\ Cardinality(included \cup Range(pts)) <= MaxPts
    /\ pc' = "extend"
    /\ bbox' = extend(bbox, pts)
    /\ included' = included \cup Range(pts)
    /\ UNCHANGED <<ret, seg, rhs, pt, other, xform, chain, iter>>

NextBBox ==
    \/ CallDefault
    \/ \E pts \in PtLists : CallNew(pts)
    \/ \E pts \in PtLists : CallExtend(pts)

SpecBBox == InitBBox /\ [][NextBBox]_vars

(***************************************************************************)
(* SpecQuery: a point and a box against a box -- check, Pt::bounded_by,    *)
(* BBox::bounded_by in both directions                                     *)
(***************************************************************************)
AllBoxes == Boxes \cup {BBoxDefault}

InitQuery ==
    /\ pc = "start"
    /\ xform = TransformDefault
    /\ chain = <<>>
    /\ iter = None
    /\ ret = NoRet
    /\ bbox \in AllBoxes
    /\ other \in AllBoxes
    /\ pt \in SegPts
    /\ included = {}
    /\ seg = NoSeg
    /\ rhs = NoSeg

\* bbox.check(pt.x, pt.y)
CallCheck ==
    /\ pc = "start"
    /\ pc' = "check"
    /\ ret' = [op |-> "check", tag |-> check(bbox, pt.x, pt.y)]
    /\ UNCHANGED <<bbox, included, seg, rhs, pt, other, xform, chain, iter>>

\* pt.bounded_by(bbox)
CallPtBoundedBy ==
    /\ pc = "check"
    /\ pc' = "pt_bounded_by"
    /\ ret' = [op |-> "pt_bounded_by", bounded |-> PtBoundedBy(pt, bbox)]
    /\ UNCHANGED <<bbox, included, seg, rhs, pt, other, xform, chain, iter>>

\* other.bounded_by(bbox), then bbox.bounded_by(other)
CallBBoxBoundedBy ==
    /\ pc = "pt_bounded_by"
    /\ pc' = "bbox_bounded_by"
    /\ ret' = [op |-> "bbox_bounded_by",
               bounded |-> BBoxBoundedBy(other, bbox),
               swapped |-> BBoxBoundedBy(bbox, other)]
    /\ UNCHANGED <<bbox, included, seg, rhs, pt, other, xform, chain, iter>>

NextQuery == CallCheck \/ CallPtBoundedBy \/ CallBBoxBoundedBy

SpecQuery == InitQuery /\ [][NextQuery]_vars

(***************************************************************************)
(* SpecOverlap: two boxes -- BBox::bounded_by, and the same test for the   *)
(* box of a single point next to Pt::bounded_by                            *)
(***************************************************************************)
\* every box BBox::new builds from two grid points, and the default box
GridBoxes == {BBoxNew(<<a, b>>) : a \in GridPts, b \in GridPts} \cup {BBoxDefault}

\* the point is the minimum corner of other, so it is any grid point
InitOverlap ==
    /\ pc = "start"
    /\ xform = TransformDefault
    /\ chain = <<>>
    /\ iter = None
    /\ ret = NoRet
    /\ bbox \in GridBoxes
    /\ other \in GridBoxes
    /\ pt = other.min
    /\ included = {}
    /\ seg = NoSeg
    /\ rhs = NoSeg

\* other.bounded_by(bbox)
CallOverlap ==
    /\ pc = "start"
    /\ pc' = "overlap"
    /\ ret' = [op |-> "overlap", bounded |-> BBoxBoundedBy(other, bbox)]
    /\ UNCHANGED <<bbox, included, seg, rhs, pt, other, xform, chain, iter>>

\* BBox::from(pt).bounded_by(bbox) and pt.bounded_by(bbox)
CallFromPt ==
    /\ pc = "overlap"
    /\ pc' = "from_pt"
    /\ ret' = [op |-> "from_pt",
               bounded |-> BBoxBoundedBy(BBoxFrom(pt), bbox),
               pt_bounded |-> PtBoundedBy(pt, bbox)]
    /\ UNCHANGED <<bbox, included, seg, rhs, pt, other, xform, chain, iter>>

NextOverlap == CallOverlap \/ CallFromPt

SpecOverlap == InitOverlap /\ [][NextOverlap]_vars

(***************************************************************************)
(* SpecGrow: a segment, its first endpoint and the box of its endpoints    *)
(* against a box that is extended again and again                          *)
(***************************************************************************)
\* the lists handed to extend hold one box grid point: extend folds
\* include_pt over its list, so a longer list is a sequence of these calls
GrowLists == {<<a>> : a \in BoxPts}

\* the box is any valid box BBox::new builds; the point is the segment's
\* first endpoint and the other box the box of its two endpoints
InitGrow ==
    /\ pc = "start"
    /\ xform = TransformDefault
    /\ chain = <<>>
    /\ iter = None
    /\ ret = NoRet
    /\ seg \in Segs
    /\ bbox \in Boxes
    /\ pt = seg.p0
    /\ other = BBoxNew(<<seg.p0, seg.p1>>)
    /\ included = {}
    /\ rhs = NoSeg

\* seg.bounded_by(bbox), pt.bounded_by(bbox) and other.bounded_by(bbox);
\* then bbox.extend(pts); then the three calls again
CallGrow(pts) ==
    /\ pc' = "grow"
    /\ bbox' = extend(bbox, pts)
    /\ ret' = [op |-> "grow",
               seg_before |-> SegBoundedBy(seg, bbox),
               pt_before |-> PtBoundedBy(pt, bbox),
               box_before |-> BBoxBoundedBy(other, bbox),
               seg_after |-> SegBoundedBy(seg, bbox'),
               pt_after |-> PtBoundedBy(pt, bbox'),
               box_after |-> BBoxBoundedBy(other, bbox')]
    /\ UNCHANGED <<included, seg, rhs, pt, other, xform, chain, iter>>

NextGrow == \E pts \in GrowLists : CallGrow(pts)

SpecGrow == InitGrow /\ [][NextGrow]_vars

(***************************************************************************)
(* SpecIter: a box turned into its iterator, and next called on it         *)
(***************************************************************************)
InitIter ==
    /\ pc = "start"
    /\ xform = TransformDefault
    /\ chain = <<>>
    /\ iter = None
    /\ ret = NoRet
    /\ bbox \in GridBoxes
    /\ other = BBoxDefault
    /\ pt = NoPt
    /\ included = {}
    /\ seg = NoSeg
    /\ rhs = NoSeg

\* bbox.into_iter(): a new iterator, whatever became of the one before
CallIntoIter ==
    /\ pc' = "into_iter"
    /\ iter' = Some(into_iter(bbox))
    /\ ret' = [op |-> "into_iter", calls |-> 0, item |-> None, items |-> <<>>]
    /\ UNCHANGED <<bbox, included, seg, rhs, pt, other, xform, chain>>

\* iter.next(); ret counts the calls made on this iterator and collects the
\* items it yielded
CallNext ==
    /\ IsSome(iter)
    /\ ret.calls < NextMax
    /\ pc' = "next"
    /\ LET r == next(Unwrap(iter))
       IN  /\ iter' = Some(r.self)
           /\ ret' = [op |-> "next", calls |-> ret.calls + 1, item |-> r.item,
                      items |-> IF IsSome(r.item)
                                THEN Append(ret.items, Unwrap(r.item))
                                ELSE ret.items]
    /\ UNCHANGED <<bbox, included, seg, rhs, pt, other, xform, chain>>

NextIter == CallIntoIter \/ CallNext

SpecIter == InitIter /\ [][NextIter]_vars

(***************************************************************************)
(* SpecEmpty: a point, a box and a segment with coordinates anywhere in    *)
(* [-max_value, max_value] against the default (empty) box                 *)
(***************************************************************************)
WideCoords == {-MaxValue, -1, 0, 1, MaxValue}
WidePts == {IPt(i, j) : i \in WideCoords, j \in WideCoords}

\* one pair of points a, b gives the point a, the box of a and b and the
\* segment a-b
InitEmpty ==
    /\ pc = "start"
    /\ xform = TransformDefault
    /\ chain = <<>>
    /\ iter = None
    /\ ret = NoRet
    /\ bbox = BBoxDefault
    /\ \E a \in WidePts, b \in WidePts :
           /\ pt = a
           /\ other = BBoxNew(<<a, b>>)
           /\ seg = Seg(a, b)
    /\ included = {}
    /\ rhs = NoSeg

\* pt.bounded_by(BBox::default())
CallPtInEmpty ==
    /\ pc = "start"
    /\ pc' = "pt_in_empty"
    /\ ret' = [op |-> "pt_in_empty", bounded |-> PtBoundedBy(pt, bbox)]
    /\ UNCHANGED <<bbox, included, seg, rhs, pt, other, xform, chain, iter>>

\* other.bounded_by(BBox::default())
CallBBoxInEmpty ==
    /\ pc = "pt_in_empty"
    /\ pc' = "bbox_in_empty"
    /\ ret' = [op |-> "bbox_in_empty", bounded |-> BBoxBoundedBy(other, bbox)]
    /\ UNCHANGED <<bbox, included, seg, rhs, pt, other, xform, chain, iter>>

\* seg.bounded_by(BBox::default()); for a segment with a coordinate equal to
\* max_value the edge tests subtract across the whole range, which the model
\* computes exactly
CallSegInEmpty ==
    /\ pc = "bbox_in_empty"
    /\ pc' = "seg_in_empty"
    /\ ret' = [op |-> "seg_in_empty", bounded |-> SegBoundedBy(seg, bbox)]
    /\ UNCHANGED <<bbox, included, seg, rhs, pt, other, xform, chain, iter>>

NextEmpty == CallPtInEmpty \/ CallBBoxInEmpty \/ CallSegInEmpty

SpecEmpty == InitEmpty /\ [][NextEmpty]_vars

(***************************************************************************)
(* SpecLine: a point against a line and a segment -- Line::project and     *)
(* Seg::distance                                                           *)
(***************************************************************************)
\* the receiver is any point pair of the grid and the query point any grid
\* point; no second segment takes part
InitLine ==
    /\ pc = "start"
    /\ xform = TransformDefault
    /\ chain = <<>>
    /\ iter = None
    /\ ret = NoRet
    /\ seg \in IsectSegs
    /\ pt \in IsectPts
    /\ rhs = Seg(pt, pt)
    /\ bbox = BBoxDefault
    /\ included = {}
    /\ other = BBoxDefault

\* Line::new(seg.p0, seg.p1).project(pt)
CallProject ==
    /\ pc = "start"
    /\ pc' = "project"
    /\ ret' = [op |-> "project", proj |-> project(Line(seg.p0, seg.p1), pt)]
    /\ UNCHANGED <<bbox, included, seg, rhs, pt, other, xform, chain, iter>>

\* seg.distance(pt), and which of its returns was taken
CallDistance ==
    /\ pc = "project"
    /\ pc' = "distance"
    /\ ret' = [op |-> "distance", dist |-> distance(seg, pt),
               arm |-> distance_arm(seg, pt)]
    /\ UNCHANGED <<bbox, included, seg, rhs, pt, other, xform, chain, iter>>

NextLine == CallProject \/ CallDistance

SpecLine == InitLine /\ [][NextLine]_vars

(***************************************************************************)
(* SpecPair: two point pairs -- Seg::intersection and Seg::distance with   *)
(* the endpoints in either order; SpecCanon: Line::canonical of both pairs *)
(***************************************************************************)
\* the receiver and the argument are any two point pairs of the grid; the
\* query point is the argument's first endpoint, so it is any grid point
InitPair ==
    /\ pc = "start"
    /\ xform = TransformDefault
    /\ chain = <<>>
    /\ iter = None
    /\ ret = NoRet
    /\ seg \in IsectSegs
    /\ rhs \in IsectSegs
    /\ pt = rhs.p0
    /\ bbox = BBoxDefault
    /\ included = {}
    /\ other = BBoxDefault

\* seg.intersection(rhs) and seg.distance(pt), then the same calls with the
\* receiver built as Seg::new(p1, p0) and with the argument built that way
CallSwapped ==
    /\ pc = "start"
    /\ pc' = "swapped"
    /\ ret' = [op |-> "swapped",
               hit |-> SegIntersection(seg, rhs),
               hit_self_swapped |-> SegIntersection(Seg(seg.p1, seg.p0), rhs),
               hit_rhs_swapped |-> SegIntersection(seg, Seg(rhs.p1, rhs.p0)),
               dist |-> distance(seg, pt),
               dist_swapped |-> distance(Seg(seg.p1, seg.p0), pt)]
    /\ UNCHANGED <<bbox, included, seg, rhs, pt, other, xform, chain, iter>>

\* Line::new(seg.p0, seg.p1).canonical(), the canonical form of that, and
\* Line::new(rhs.p0, rhs.p1).canonical()
CallCanonical ==
    /\ pc = "start"
    /\ pc' = "canonical"
    /\ ret' = LET c == canonical(Line(seg.p0, seg.p1))
              IN  [op |-> "canonical",
                   canon |-> c,
                   twice |-> IF c = Panic THEN Panic ELSE canonical(c),
                   canon_rhs |-> canonical(Line(rhs.p0, rhs.p1))]
    /\ UNCHANGED <<bbox, included, seg, rhs, pt, other, xform, chain, iter>>

NextPair == CallSwapped

SpecPair == InitPair /\ [][NextPair]_vars

NextCanon == CallCanonical

SpecCanon == InitPair /\ [][NextCanon]_vars

(***************************************************************************)
(* SpecXform: a transform built by chained builder methods, multiplied by  *)
(* a further transform and applied to a point                              *)
(***************************************************************************)
XformParams == 1 .. XformMax
RotateAngles == {"pi/2", "atan(3/4)"}
SkewAngles == {"0", "atan(3/4)"}

\* the transforms of the four constructors, over the parameters the builder
\* methods are called with
Elementary ==
    {with_translate(F(t), F(t + 1)) : t \in XformParams}
        \cup {with_scale(F(k + 1), F(k)) : k \in XformParams}
        \cup {with_rotate(th) : th \in RotateAngles}
        \cup {with_skew("pi/4", ay) : ay \in SkewAngles}

InitXform ==
    /\ pc = "start"
    /\ xform = TransformDefault
    /\ chain = <<>>
    /\ iter = None
    /\ ret = NoRet
    /\ pt \in GridPts
    /\ bbox = BBoxDefault
    /\ included = {}
    /\ seg = NoSeg
    /\ rhs = NoSeg
    /\ other = BBoxDefault

\* xform.translate(t, t + 1)
CallTranslate(t) ==
    /\ pc \in {"start", "build"} /\ Len(chain) < ChainMax
    /\ pc' = "build"
    /\ xform' = translate(xform, F(t), F(t + 1))
    /\ chain' = Append(chain, with_translate(F(t), F(t + 1)))
    /\ UNCHANGED <<ret, bbox, included, seg, rhs, pt, other, iter>>

\* xform.scale(k + 1, k)
CallScale(k) ==
    /\ pc \in {"start", "build"} /\ Len(chain) < ChainMax
    /\ pc' = "build"
    /\ xform' = scale(xform, F(k + 1), F(k))
    /\ chain' = Append(chain, with_scale(F(k + 1), F(k)))
    /\ UNCHANGED <<ret, bbox, included, seg, rhs, pt, other, iter>>

\* xform.rotate(th)
CallRotate(th) ==
    /\ pc \in {"start", "build"} /\ Len(chain) < ChainMax
    /\ pc' = "build"
    /\ xform' = rotate(xform, th)
    /\ chain' = Append(chain, with_rotate(th))
    /\ UNCHANGED <<ret, bbox, included, seg, rhs, pt, other, iter>>

\* xform.skew(pi/4, ay)
CallSkew(ay) ==
    /\ pc \in {"start", "build"} /\ Len(chain) < ChainMax
    /\ pc' = "build"
    /\ xform' = skew(xform, "pi/4", ay)
    /\ chain' = Append(chain, with_skew("pi/4", ay))
    /\ UNCHANGED <<ret, bbox, included, seg, rhs, pt, other, iter>>

\* (xform * b) * pt, b * (xform * pt), pt * xform and xform * pt
CallMul(b) ==
    /\ pc \in {"start", "build"}
    /\ pc' = "mul"
    /\ ret' = [op |-> "mul",
               b |-> b,
               ab_p |-> TransformMulPt(TransformMul(xform, b), pt),
               b_ap |-> TransformMulPt(b, TransformMulPt(xform, pt)),
               p_t |-> PtMulTransform(pt, xform),
               t_p |-> TransformMulPt(xform, pt)]
    /\ UNCHANGED <<bbox, included, seg, rhs, pt, other, xform, chain, iter>>

NextXform ==
    \/ \E t \in XformParams : CallTranslate(t)
    \/ \E k \in XformParams : CallScale(k)
    \/ \E th \in RotateAngles : CallRotate(th)
    \/ \E ay \in SkewAngles : CallSkew(ay)
    \/ \E b \in Elementary : CallMul(b)

SpecXform == InitXform /\ [][NextXform]_vars

(***************************************************************************)
(* Claims                                                                  *)
(***************************************************************************)
Tags == {"Within", "Below", "BelowLeft", "Left", "AboveLeft", "Above",
         "AboveRight", "Right", "BelowRight"}

MinOf(S) == CHOOSE m \in S : \A v \in S : m <= v
MaxOf(S) == CHOOSE m \in S : \A v \in S : m >= v

\* C1: for a valid box, when seg.clip(bbox) is Some(s2) both endpoints of s2
\* classify Within the box.
C1_ClipEndpointsWithin ==
    (pc = "clip" /\ Valid(bbox) /\ IsSome(ret.clipped)) =>
        LET s2 == Unwrap(ret.clipped)
        IN  /\ check(bbox, s2.p0.x, s2.p0.y) = "Within"
            /\ check(bbox, s2.p1.x, s2.p1.y) = "Within"

\* C2: seg.intersection(rhs) is Some(p) only if p lies on the closed segment
\* seg and on the closed segment rhs.
C2_IntersectionOnBothSegments ==
    (pc = "seg_intersection" /\ IsSome(ret.hit)) =>
        /\ OnClosedSeg(seg, Unwrap(ret.hit))
        /\ OnClosedSeg(rhs, Unwrap(ret.hit))

\* C3: for a valid box, seg.bounded_by(bbox) is true exactly when the closed
\* segment and the closed box share a point (brute-force reference).
C3_BoundedByIsOverlap ==
    (pc = "bounded_by" /\ Valid(bbox)) => (ret.bounded <=> Overlaps(seg, bbox))

\* C4: for a valid box, check returns one of the nine tags, each axis decided
\* on its own (x < x_min: a Left tag, x > x_max: a Right tag, y < y_min: a
\* Below tag, y > y_max: an Above tag), and Within exactly for the points of
\* the closed box.
C4_CheckClassifies ==
    (pc = "check" /\ Valid(bbox)) =>
        /\ ret.tag \in Tags
        /\ ret.tag \in LeftSide <=> FLt(pt.x, x_min(bbox))
        /\ ret.tag \in RightSide <=> FGt(pt.x, x_max(bbox))
        /\ ret.tag \in BelowSide <=> FLt(pt.y, y_min(bbox))
        /\ ret.tag \in AboveSide <=> FGt(pt.y, y_max(bbox))
        /\ ret.tag = "Within" <=> InBox(pt, bbox)

\* C4 witness: a point on the boundary of a valid box was classified Within.
C4_BoundaryPointWithin ==
    /\ pc = "check" /\ Valid(bbox)
    /\ pt.x = x_max(bbox) /\ x_min(bbox) # x_max(bbox)
    /\ ret.tag = "Within"

C6_EmptyBoxBoundsNothing ==
    pc \in {"pt_in_empty", "bbox_in_empty", "seg_in_empty"} => ~ret.bounded

\* C7: Line::intersection is None exactly when the cross product of the two
\* direction vectors is zero; in particular a line never intersects itself.
C7_NoneIffParallel ==
    pc = "line_intersection" =>
        /\ ret.hit = None <=>
               Cross(PtSub(seg.p1, seg.p0), PtSub(rhs.p1, rhs.p0)) = Zero
        /\ seg = rhs => ret.hit = None

\* C7 witness: two distinct parallel lines were intersected and gave None.
C7_ParallelGaveNone ==
    /\ pc = "line_intersection" /\ ret.hit = None
    /\ seg.p0 # seg.p1 /\ rhs.p0 # rhs.p1
    /\ Orient(seg.p0, seg.p1, rhs.p0) # 0

\* C8: once at least one point was included, the box is valid and its
\* extents are the componentwise minimum and maximum of the points included,
\* whatever the order they came in.
C8_ExtentsAreMinMax ==
    included # {} =>
        /\ Valid(bbox)
        /\ x_min(bbox) = F(MinOf({p.x[1] : p \in included}))
        /\ y_min(bbox) = F(MinOf({p.y[1] : p \in included}))
        /\ x_max(bbox) = F(MaxOf({p.x[1] : p \in included}))
        /\ y_max(bbox) = F(MaxOf({p.y[1] : p \in included}))

\* C8 witness: extend brought the box to three points, no two on a common
\* grid line.
C8_ThreePointsExtended ==
    /\ pc = "extend" /\ Cardinality(included) = 3
    /\ \A p \in included, q \in included : p # q => (p.x # q.x /\ p.y # q.y)

\* C9: extend never shrinks the box: x_min and y_min do not increase, x_max
\* and y_max do not decrease, and a point Within before is Within after.
C9_ExtendMonotonic ==
    [][pc' = "extend" =>
          /\ FLe(x_min(bbox'), x_min(bbox)) /\ FLe(y_min(bbox'), y_min(bbox))
          /\ FGe(x_max(bbox'), x_max(bbox)) /\ FGe(y_max(bbox'), y_max(bbox))
          /\ \A p \in GridPts : PtBoundedBy(p, bbox) => PtBoundedBy(p, bbox')]_vars

\* C9 witness: extend was applied to a box that already held points (a list
\* has at most two) and the box has positive width and height.
C9_ExtendGrewBox ==
    /\ pc = "extend" /\ Cardinality(included) = 3
    /\ x_min(bbox) # x_max(bbox) /\ y_min(bbox) # y_max(bbox)

\* C10: box-box overlap is symmetric: a.bounded_by(b) = b.bounded_by(a).
C10_OverlapSymmetric ==
    pc = "bbox_bounded_by" => ret.bounded = ret.swapped

\* C10 witness: two different valid boxes that only touch were compared.
C10_TouchingBoxesCompared ==
    /\ pc = "bbox_bounded_by" /\ ret.bounded
    /\ Valid(bbox) /\ Valid(other)
    /\ x_max(other) = x_min(bbox) /\ x_min(other) # x_max(bbox)

\* squared distance between two points
DistSq(a, b) == Let(PtSub(a, b), LAMBDA v : dot(v, v))

\* the point of the closed segment s (p0 # p1) nearest to q: the foot of the
\* perpendicular, its parameter clamped to [0, 1]
FootParam(s, q) ==
    FDiv(dot(PtSub(q, s.p0), PtSub(s.p1, s.p0)), DistSq(s.p1, s.p0))

Nearest(s, q) ==
    LET t == FootParam(s, q)
        c == IF FLt(t, Zero) THEN Zero ELSE IF FGt(t, F(1)) THEN F(1) ELSE t
        v == PtSub(s.p1, s.p0)
    IN  Pt(FAdd(s.p0.x, FMul(c, v.x)), FAdd(s.p0.y, FMul(c, v.y)))

\* C11: no operation ends in a panic, whatever the input (a line or segment
\* with two identical points included): project and distance return a value.
C11_NoPanic ==
    /\ pc = "project" => ret.proj # Panic
    /\ pc = "distance" => ret.dist # Panic

\* C12: for a line with p0 # p1, project does not panic; its result lies on
\* the line, the vector from it to pt is perpendicular to the line, no grid
\* point of the line is nearer to pt, and a point on the line projects to
\* itself.
C12_ProjectIsNearestOnLine ==
    (pc = "project" /\ seg.p0 # seg.p1) =>
        /\ ret.proj # Panic
        /\ Orient(seg.p0, seg.p1, ret.proj) = 0
        /\ dot(PtSub(pt, ret.proj), PtSub(seg.p1, seg.p0)) = Zero
        /\ \A g \in IsectPts :
               Orient(seg.p0, seg.p1, g) = 0 =>
                   FLe(DistSq(pt, ret.proj), DistSq(pt, g))
        /\ Orient(seg.p0, seg.p1, pt) = 0 => ret.proj = pt

\* C12 witness: a point off a slanted line was projected to a point off the
\* grid.
C12_ProjectedOffGrid ==
    /\ pc = "project" /\ seg.p0 # seg.p1
    /\ Orient(seg.p0, seg.p1, pt) # 0
    /\ ret.proj # Panic /\ ret.proj.x[2] # 1

\* C13: for a segment with p0 # p1, distance is the Euclidean distance from
\* pt to the nearest point of the closed segment: to p1 when pt projects
\* beyond p1, to p0 when it projects before p0, else the distance to the foot
\* of the perpendicular; segment (0,0)-(10,0) and point (-5,0) give 5.
C13_DistanceToNearestPoint ==
    /\ (pc = "distance" /\ seg.p0 # seg.p1) =>
        /\ ret.dist = Root(DistSq(pt, Nearest(seg, pt)))
        /\ FGt(FootParam(seg, pt), F(1)) => ret.dist = Root(DistSq(pt, seg.p1))
        /\ FLt(FootParam(seg, pt), Zero) => ret.dist = Root(DistSq(pt, seg.p0))
        /\ \A g \in IsectPts :
               OnSeg(seg.p0, seg.p1, g) => FLe(ret.dist.of, DistSq(pt, g))
    /\ distance(Seg(IPt(0, 0), IPt(10, 0)), IPt(-5, 0)) = Root(FMul(F(5), F(5)))

\* C13 witness: the foot of the perpendicular fell strictly inside a slanted
\* segment, at distance root 2.
C13_FootInsideSlanted ==
    /\ pc = "distance" /\ seg.p0 # seg.p1
    /\ FGt(FootParam(seg, pt), Zero) /\ FLt(FootParam(seg, pt), F(1))
    /\ ret.dist = Root(F(2))

C15_DegenerateDistanceIsNaN ==
    (pc = "distance" /\ seg.p0 = seg.p1) =>
        /\ ret.dist \in {NaN, Infinity}
        /\ ret.dist # Root(DistSq(pt, seg.p0))

\* C15 witness: the distance from a one-point segment to another point was
\* asked for and came out NaN.
C15_OnePointSegmentQueried ==
    /\ pc = "distance" /\ seg.p0 = seg.p1 /\ pt # seg.p0
    /\ ret.dist = NaN

\* C16 as stated: with p0 = p1 in the receiver or in the argument,
\* Seg::intersection divides by zero and returns a point with a NaN or
\* infinite coordinate.
C16_DegenerateGivesNaNPoint ==
    (pc = "seg_intersection" /\ (seg.p0 = seg.p1 \/ rhs.p0 = rhs.p1)) =>
        /\ IsSome(ret.hit)
        /\ \/ Unwrap(ret.hit).x \in {NaN, Infinity}
           \/ Unwrap(ret.hit).y \in {NaN, Infinity}

\* C16 amended: with p0 = p1 in the receiver or in the argument the cross
\* product den is zero, the den != 0 test keeps the division from running,
\* and Seg::intersection returns None.
C16_DegenerateGivesNone ==
    (pc = "seg_intersection" /\ (seg.p0 = seg.p1 \/ rhs.p0 = rhs.p1)) =>
        ret.hit = None

\* C16 witness: a one-point segment lying on the argument segment was
\* intersected with it.
C16_PointOnSegmentIntersected ==
    /\ pc = "seg_intersection"
    /\ seg.p0 = seg.p1 /\ rhs.p0 # rhs.p1
    /\ OnSeg(rhs.p0, rhs.p1, seg.p0)
    /\ ret.hit = None

\* the point pairs a and b (each of two different points) lie on one line
SameLine(a, b) ==
    /\ Orient(a.p0, a.p1, b.p0) = 0
    /\ Orient(a.p0, a.p1, b.p1) = 0

\* C17: canonical is idempotent, and two lines given by different point
\* pairs of one infinite line (swapped, or moved along it) have equal
\* canonical forms; Line((23,0),(0,-19)).canonical() = Line((0,-19),(23,0)).
C17_CanonicalIsCanonical ==
    /\ (pc = "canonical" /\ seg.p0 # seg.p1) =>
        /\ ret.canon # Panic
        /\ ret.twice = ret.canon
        /\ (rhs.p0 # rhs.p1 /\ SameLine(seg, rhs)) => ret.canon_rhs = ret.canon
        /\ (rhs.p0 # rhs.p1 /\ ret.canon_rhs = ret.canon) => SameLine(seg, rhs)
    /\ canonical(Line(IPt(23, 0), IPt(0, -19))) = Line(IPt(0, -19), IPt(23, 0))

\* C17 witness: two different point pairs of one slanted line that misses
\* the origin, sharing no first point, were canonicalized.
C17_SlantedLineTwoPairs ==
    /\ pc = "canonical"
    /\ seg.p0 # seg.p1 /\ rhs.p0 # rhs.p1 /\ SameLine(seg, rhs)
    /\ seg.p0 # rhs.p0 /\ seg.p0 # rhs.p1
    /\ seg.p0.x # seg.p1.x /\ seg.p0.y # seg.p1.y
    /\ Orient(seg.p0, seg.p1, IPt(0, 0)) # 0
    /\ ret.canon = ret.canon_rhs

\* the transforms of a chain applied to p one after the other, first to last
RECURSIVE ApplyInOrder(_, _)
ApplyInOrder(ts, p) ==
    IF ts = <<>> THEN p
    ELSE ApplyInOrder(Tail(ts), TransformMulPt(Head(ts), p))

\* C18: composition applies left to right: (a * b) * p = b * (a * p) and
\* p * t = t * p; a transform built by chained builder methods maps a point
\* as its transforms do one after the other in call order; and
\* with_translate(1,2) * with_scale(2,2) has the matrix [2,0,2,0,2,4].
C18_ComposeLeftToRight ==
    /\ pc = "mul" => (ret.ab_p = ret.b_ap /\ ret.p_t = ret.t_p)
    /\ TransformMulPt(xform, pt) = ApplyInOrder(chain, pt)
    /\ TransformMul(with_translate(F(1), F(2)), with_scale(F(2), F(2))).e
           = Arr6(F(2), Zero, F(2), Zero, F(2), F(4))

\* C18 witness: a chain of two transforms was multiplied by a third that
\* does not commute with it, and applied to a point.
C18_OrderMatters ==
    /\ pc = "mul" /\ Len(chain) = 2
    /\ ret.ab_p # TransformMulPt(xform, TransformMulPt(ret.b, pt))
    /\ TransformMulPt(xform, pt)
           # TransformMulPt(chain[1], TransformMulPt(chain[2], pt))

\* C19: clip returns None exactly when bounded_by is false.
C19_ClipNoneIffNotBounded ==
    pc = "clip" => (ret.clipped = None <=> ~ret.bounded)

\* C19 witness: a segment from the left of a valid box to above it, passing
\* the corner outside, was rejected by both.
C19_CornerMissRejected ==
    /\ pc = "clip" /\ Valid(bbox) /\ ~Degenerate(bbox)
    /\ check(bbox, seg.p0.x, seg.p0.y) = "Left"
    /\ check(bbox, seg.p1.x, seg.p1.y) = "Above"
    /\ ret.clipped = None /\ ~ret.bounded

\* the parameters t in [0, 1] for which p0 + t * (p1 - p0) has its `axis`
\* coordinate in [lo, hi]: <<from, to>>, empty when from > to
AxisRange(s, axis, lo, hi) ==
    LET a == s.p0[axis]
        d == FSub(s.p1[axis], a)
        t1 == FDiv(FSub(lo, a), d)
        t2 == FDiv(FSub(hi, a), d)
    IN  IF d = Zero
        THEN (IF FLe(lo, a) /\ FLe(a, hi) THEN <<Zero, F(1)>> ELSE <<F(1), Zero>>)
        ELSE <<FMax(Zero, FMin(t1, t2)), FMin(F(1), FMax(t1, t2))>>

\* the part of the closed segment s inside the closed box b, by parameter
InsideRange(s, b) ==
    LET rx == AxisRange(s, "x", x_min(b), x_max(b))
        ry == AxisRange(s, "y", y_min(b), y_max(b))
    IN  <<FMax(rx[1], ry[1]), FMin(rx[2], ry[2])>>

PointAt(s, t) ==
    Pt(FAdd(s.p0.x, FMul(t, FSub(s.p1.x, s.p0.x))),
       FAdd(s.p0.y, FMul(t, FSub(s.p1.y, s.p0.y))))

\* p lies on the boundary of the closed box b
OnBoundary(p, b) ==
    /\ InBox(p, b)
    /\ p.x = x_min(b) \/ p.x = x_max(b) \/ p.y = y_min(b) \/ p.y = y_max(b)

\* C20: clip only trims.  In the result Some(s2) an endpoint that classifies
\* Within is unchanged and in its place, a replaced endpoint is a point of
\* the original closed segment on the box boundary, and s2 is exactly the
\* part of the original segment inside the box.
C20_ClipOnlyTrims ==
    (pc = "clip" /\ Valid(bbox) /\ IsSome(ret.clipped)) =>
        LET s2 == Unwrap(ret.clipped)
            r == InsideRange(seg, bbox)
        IN  /\ PtBoundedBy(seg.p0, bbox) => s2.p0 = seg.p0
            /\ PtBoundedBy(seg.p1, bbox) => s2.p1 = seg.p1
            /\ s2.p0 # seg.p0 =>
                   (OnClosedSeg(seg, s2.p0) /\ OnBoundary(s2.p0, bbox))
            /\ s2.p1 # seg.p1 =>
                   (OnClosedSeg(seg, s2.p1) /\ OnBoundary(s2.p1, bbox))
            /\ FLe(r[1], r[2])
            /\ s2 = Seg(PointAt(seg, r[1]), PointAt(seg, r[2]))

\* the region codes of the two endpoints of s against b
Regions(s, b) == <<check(b, s.p0.x, s.p0.y), check(b, s.p1.x, s.p1.y)>>

\* both region codes lie on one side of the box
SameSide(t) ==
    \E side \in {LeftSide, RightSide, BelowSide, AboveSide} :
        t[1] \in side /\ t[2] \in side

\* C21: for a valid box Seg::bounded_by is true when an endpoint is Within or
\* the endpoints are a Left/Right or a Below/Above pair, and false when both
\* endpoints lie on one side of the box; in each of these cases the answer
\* is the geometric one (the closed segment and the closed box share a point
\* or do not).
C21_RegionCodesDecide ==
    (pc = "bounded_by" /\ Valid(bbox)) =>
        LET t == Regions(seg, bbox)
        IN  /\ ("Within" \in {t[1], t[2]} \/ {t[1], t[2]} = {"Left", "Right"}
                    \/ {t[1], t[2]} = {"Below", "Above"}) =>
                   (ret.bounded /\ Overlaps(seg, bbox))
            /\ ("Within" \notin {t[1], t[2]} /\ SameSide(t)) =>
                   (~ret.bounded /\ ~Overlaps(seg, bbox))

\* C21 witness: a segment from the left of a one-point box to its right was
\* accepted.
C21_LeftRightThroughPointBox ==
    /\ pc = "bounded_by" /\ Valid(bbox)
    /\ bbox.min = bbox.max
    /\ Regions(seg, bbox) = <<"Left", "Right">>
    /\ ret.bounded

Parallel(a, b) == Cross(PtSub(a.p1, a.p0), PtSub(b.p1, b.p0)) = Zero

\* the line through the pair a as A x + B y = C: <<A, B, C>>
Implicit(a) ==
    LET ca == FSub(a.p1.y, a.p0.y)
        cb == FSub(a.p0.x, a.p1.x)
    IN  <<ca, cb, FAdd(FMul(ca, a.p0.x), FMul(cb, a.p0.y))>>

\* the meeting point of two non-parallel lines, by Cramer's rule
Meet(a, b) ==
    LET l == Implicit(a)
        m == Implicit(b)
        det == FSub(FMul(l[1], m[2]), FMul(m[1], l[2]))
    IN  Pt(FDiv(FSub(FMul(l[3], m[2]), FMul(m[3], l[2])), det),
           FDiv(FSub(FMul(l[1], m[3]), FMul(m[1], l[3])), det))

\* the closed bounding box of the two endpoints of r
EndpointBox(r) ==
    [min |-> Pt(FMin(r.p0.x, r.p1.x), FMin(r.p0.y, r.p1.y)),
     max |-> Pt(FMax(r.p0.x, r.p1.x), FMax(r.p0.y, r.p1.y))]

C24_OverlapIsSharedPoint ==
    /\ (pc = "overlap" /\ Valid(bbox) /\ Valid(other)) =>
           (ret.bounded <=> \E p \in GridPts : InBox(p, bbox) /\ InBox(p, other))
    /\ (pc = "from_pt" /\ Valid(bbox)) =>
           /\ ret.bounded <=> ret.pt_bounded
           /\ ret.bounded <=> InBox(pt, bbox)

\* C24 witness: two boxes of positive width and height that share one corner
\* point and nothing else were found to overlap.
C24_CornerTouchOverlaps ==
    /\ pc = "overlap" /\ ret.bounded
    /\ ~Degenerate(bbox) /\ ~Degenerate(other)
    /\ other.max = bbox.min

\* Seg::distance with its two tests in the other order
DistanceP0TestedFirst(s, q) ==
    LET v0 == PtSub(s.p1, s.p0)
        v1 == PtSub(q, s.p1)
        v2 == PtSub(s.p0, s.p1)
        v3 == PtSub(q, s.p0)
    IN  IF FGt(dot(v2, v3), Zero) THEN mag(v3)
        ELSE IF FGt(dot(v0, v1), Zero) THEN mag(v1)
        ELSE FDivRoot(FAbs(Cross(v0, v3)), mag(v0))

\* C25: for a segment with p0 # p1 the endpoint tests of Seg::distance are
\* strict: a point whose foot is exactly p0 or p1 (a zero dot product) takes
\* the final perpendicular-distance expression; the two tests never both
\* hold, so testing them in the other order gives the same result.
C25_StrictExclusiveTests ==
    (pc = "distance" /\ seg.p0 # seg.p1) =>
        LET d1 == dot(PtSub(seg.p1, seg.p0), PtSub(pt, seg.p1))
            d0 == dot(PtSub(seg.p0, seg.p1), PtSub(pt, seg.p0))
        IN  /\ (d1 = Zero \/ d0 = Zero) => ret.arm = "between"
            /\ ~(FGt(d1, Zero) /\ FGt(d0, Zero))
            /\ ret.arm = "p1" <=> FGt(d1, Zero)
            /\ ret.arm = "p0" <=> FGt(d0, Zero)
            /\ ret.dist = DistanceP0TestedFirst(seg, pt)

\* C25 witness: a point off the line whose foot is exactly p1 took the
\* perpendicular-distance expression, which gave its distance to p1.
C25_FootExactlyAtP1 ==
    /\ pc = "distance" /\ seg.p0 # seg.p1
    /\ dot(PtSub(seg.p1, seg.p0), PtSub(pt, seg.p1)) = Zero
    /\ pt # seg.p1
    /\ ret.arm = "between"
    /\ ret.dist = Root(DistSq(pt, seg.p1))

\* C26: segment intersection does not depend on which segment is the
\* receiver: a.intersects(b) = b.intersects(a) and
\* a.intersection(b) = b.intersection(a).
C26_ReceiverIrrelevant ==
    pc = "seg_intersection" =>
        /\ ret.meets_exchanged = ret.meets
        /\ ret.hit_exchanged = ret.hit

\* C27: the two revisions of Seg::bounded_by, the one in line.rs and the one
\* in segment.rs, return the same boolean for every segment and every valid
\* box.
C27_RevisionsAgree ==
    (pc = "bounded_by" /\ Valid(bbox)) => ret.bounded_line_rs = ret.bounded

Take(q, n) == SubSeq(q, 1, IF n < Len(q) THEN n ELSE Len(q))

\* C30: iterating a box yields exactly two items, its minimum point and then
\* its maximum point, and every later call of next returns None; the counter
\* of the iterator only moves 0 -> 1 -> 2 and stays at 2.
C30_TwoItemsThenNone ==
    /\ [](IsSome(iter) =>
              /\ Unwrap(iter).i = (IF ret.calls < 2 THEN ret.calls ELSE 2)
              /\ ret.items = Take(<<bbox.min, bbox.max>>, ret.calls)
              /\ ret.calls = 1 => ret.item = Some(bbox.min)
              /\ ret.calls = 2 => ret.item = Some(bbox.max)
              /\ ret.calls > 2 => ret.item = None)
    /\ [][pc' = "next" =>
              /\ Unwrap(iter').pts = Unwrap(iter).pts
              /\ Unwrap(iter').i =
                     (IF Unwrap(iter).i < 2 THEN Unwrap(iter).i + 1 ELSE 2)
              /\ Unwrap(iter).i = 2 => (ret'.item = None /\ iter' = iter)]_vars

\* C30 witness: next was called twice more after the two items of a box
\* with different corners were yielded.
C30_ExhaustedCalledAgain ==
    /\ pc = "next" /\ ret.calls = 4
    /\ bbox.min # bbox.max
    /\ ret.items = <<bbox.min, bbox.max>> /\ ret.item = None

=============================================================================
